---- MODULE Spec2Model ----
(***************************************************************************)
(* MathGenealogyScraper (scraper.py): breadth-first traversal of the       *)
(* advisor-citation graph of the Mathematics Genealogy Project.            *)
(*                                                                         *)
(* One behaviour is one MathGenealogyScraper object: __init__ followed by  *)
(* one call of scrape().  The web site is the environment: the advisor     *)
(* links of every page are fixed when the run starts (variable web), the   *)
(* transport outcome of a request and the rest of the page (title, first   *)
(* profile link) are chosen when the page is requested.                    *)
(***************************************************************************)
EXTENDS Integers, Sequences, FiniteSets, TLC

\* ---------------------------------------------------------------- bounds
NumIds == 3      \* identifiers are 0 .. NumIds-1
MaxEdges == 3    \* advisor links on all pages of the site together
MaxDepth == 3    \* end_depth ranges over 0 .. MaxDepth
MaxWait == 6     \* wait_sec ranges over -MaxWait .. MaxWait ticks
MaxNoise == 5    \* a random.gauss draw ranges over -MaxNoise .. MaxNoise ticks
MaxLen == 5      \* length of a text given to collapse_whitespace

\* Durations are counted in ticks of 0.05 s.
DefaultWait == 50    \* wait_sec: float = 2.5
NoiseLo == -2        \* the clamp's lower end, -0.1
NoiseHi == 3         \* the clamp's upper end, 0.15

\* Python's None, for Optional[int] / Optional[str] identifiers.
None == -1

Ids == 0 .. (NumIds - 1)

\* The identifier scrape() starts from (--start-id).
StartIds == {1}

VARIABLES
    start_id,         \* self.start_id
    end_id,           \* self.end_id (None when no target)
    end_depth,        \* self.end_depth
    visited,          \* self.visited
    queue,            \* self.queue: sequence of <<id, level>>
    mathematicians,   \* self.mathematicians: sequence of records
    parent_map,       \* self.parent_map: advisor id -> sequence of citing ids
    target_found,     \* self.target_found
    target_level,     \* self.target_level
    pc,               \* position of the run: "start", "loop", "done"
    web,              \* environment: id -> sequence of advisor ids on its page
    end_id_arg,       \* history: the end_id argument given to __init__
    source,           \* history: source[i] is the current_id mathematicians[i] was parsed for
    fetches,          \* history: id -> number of get_page(id) calls
    parses,           \* history: id -> number of parse_mathematician calls for id
    levelOf,          \* history: id -> level at which id entered visited (0: not visited)
    outcome,          \* history: id -> how its visit ended: "none", "fetch_fail", "parse_fail", "record"
    sweep,            \* history: ids queued at target_level and unvisited when the target was found
    last,             \* history: what the latest loop iteration did
    wait_sec,         \* self.wait_sec, in ticks
    noise,            \* the latest random.gauss(0, 0.1) draw, in ticks
    slept,            \* the durations given to sleep() for the current fetch, in ticks
    text,             \* an argument of collapse_whitespace
    out               \* the results of applying collapse_whitespace to text, then to its result

vars == <<start_id, end_id, end_depth, visited, queue, mathematicians, parent_map,
          target_found, target_level, pc, web, end_id_arg, source, fetches, parses,
          levelOf, outcome, sweep, last, wait_sec, noise, slept, text, out>>

\* What no step of the traversal changes: the configuration, the site, and the
\* variables of the delay and text specifications below.
config == <<start_id, end_id, end_depth, web, end_id_arg, wait_sec, noise, slept, text, out>>

\* ------------------------------------------------------- the environment
\* All sites whose pages hold at most k advisor links together.
RECURSIVE WebsUpTo(_)
WebsUpTo(k) ==
    IF k = 0 THEN {[i \in Ids |-> <<>>]}
    ELSE LET smaller == WebsUpTo(k - 1)
         IN  smaller \cup
             {[w EXCEPT ![c] = Append(w[c], a)] : w \in smaller, c \in Ids, a \in Ids}

Range(s) == {s[i] : i \in DOMAIN s}

\* ----------------------------------------------------------- __init__
\* self.end_id = str(end_id) if end_id else None
InitEndId(arg) == IF arg = None \/ arg = 0 THEN None ELSE arg

\* The fields __init__ sets to fixed values, and the history of a run that has
\* not started.
Fresh ==
    /\ visited = {}
    /\ queue = <<>>
    /\ mathematicians = <<>>
    /\ parent_map = [a \in {} |-> <<>>]
    /\ target_found = FALSE
    /\ target_level = 0
    /\ pc = "start"
    /\ source = <<>>
    /\ fetches = [i \in Ids |-> 0]
    /\ parses = [i \in Ids |-> 0]
    /\ levelOf = [i \in Ids |-> 0]
    /\ outcome = [i \in Ids |-> "none"]
    /\ sweep = {}
    /\ last = [kind |-> "none", id |-> None, level |-> 0]

Init ==
    /\ start_id \in StartIds
    /\ end_id_arg \in Ids \cup {None}
    /\ end_id = InitEndId(end_id_arg)
    /\ end_depth \in 0 .. MaxDepth
    /\ web \in WebsUpTo(MaxEdges)
    /\ Fresh
    /\ wait_sec = DefaultWait
    /\ noise = 0
    /\ slept = <<>>
    /\ text = <<>>
    /\ out = <<>>

\* ----------------------------------------------------------- get_page
\* A fetched document, as far as scrape() reads it: whether it has an h2
\* title, the id of its first profile link and the ids of its advisor links
\* in document order.  The first profile link is a link to the page's own id
\* when the page holds one before its advisor links, else the first advisor
\* link, else (no profile link at all) None.
FirstLinks(id) == {id, IF web[id] = <<>> THEN None ELSE Head(web[id])}

Soups(id) ==
    {[h2 |-> b, first |-> f, advisors |-> web[id]] : b \in BOOLEAN, f \in FirstLinks(id)}

\* Optional[BeautifulSoup]: <<>> is None (a RequestException was caught).
GetPage(id) == {<<>>} \cup {<<s>> : s \in Soups(id)}

\* ------------------------------------------------------- get_advisors
get_advisors(soup) == soup.advisors

\* ------------------------------------------------- parse_mathematician
\* Optional[Mathematician]: <<>> is None (an exception was caught): the
\* page has no h2, or it has no profile link to take the id from.
parse_mathematician(soup, level, advisors) ==
    IF ~soup.h2 \/ soup.first = None
    THEN <<>>
    ELSE <<[id |-> soup.first, level |-> level, descended_from |-> advisors]>>

\* ---------------------------------------------------- scrape: helpers
RECURSIVE RecordEdgesSwapped(_, _, _)
RecordEdgesSwapped(pm, advisors, id) ==
    IF advisors = <<>> THEN pm
    ELSE LET old == IF id \in DOMAIN pm THEN pm[id] ELSE <<>>
             pm1 == [x \in (DOMAIN pm) \cup {id} |->
                        IF x = id THEN Append(old, Head(advisors)) ELSE pm[x]]
         IN  RecordEdgesSwapped(pm1, Tail(advisors), id)

\* for advisor_id in advisors: parent_map.setdefault(advisor_id, []).append(current_id)
RECURSIVE RecordEdges(_, _, _)
RecordEdges(pm, advisors, current_id) ==
    IF advisors = <<>> THEN pm
    ELSE LET a == Head(advisors)
             old == IF a \in DOMAIN pm THEN pm[a] ELSE <<>>
             pm1 == [x \in (DOMAIN pm) \cup {a} |->
                        IF x = a THEN Append(old, current_id) ELSE pm[x]]
         IN  RecordEdges(pm1, Tail(advisors), current_id)

\* for advisor_id in advisors: if advisor_id not in visited: queue.append((advisor_id, level + 1))
RECURSIVE EnqueueFront(_, _, _, _)
EnqueueFront(q, advisors, vis, level) ==
    IF advisors = <<>> THEN q
    ELSE LET a == Head(advisors)
             q1 == IF a \notin vis THEN <<<<a, level + 1>>>> \o q ELSE q
         IN  EnqueueFront(q1, Tail(advisors), vis, level)

RECURSIVE EnqueueAll(_, _, _, _)
EnqueueAll(q, advisors, vis, level) ==
    IF advisors = <<>> THEN q
    ELSE EnqueueAll(Append(q, <<Head(advisors), level + 1>>), Tail(advisors), vis, level)

RECURSIVE EnqueueSameLevel(_, _, _, _)
EnqueueSameLevel(q, advisors, vis, level) ==
    IF advisors = <<>> THEN q
    ELSE LET a == Head(advisors)
             q1 == IF a \notin vis THEN Append(q, <<a, level>>) ELSE q
         IN  EnqueueSameLevel(q1, Tail(advisors), vis, level)

RECURSIVE Enqueue(_, _, _, _)
Enqueue(q, advisors, vis, level) ==
    IF advisors = <<>> THEN q
    ELSE LET a == Head(advisors)
             q1 == IF a \notin vis THEN Append(q, <<a, level + 1>>) ELSE q
         IN  Enqueue(q1, Tail(advisors), vis, level)

\* if self.target_found and level > self.target_level: break
TargetStopGe(found, level, tlevel) == found /\ level >= tlevel

TargetStop(found, level, tlevel) == found /\ level > tlevel

\* if not self.target_found and level > self.end_depth: break
DepthStopGe(found, level, depth) == ~found /\ level >= depth

DepthStopLate(found, level, depth) == ~found /\ level > depth + 1

DepthStop(found, level, depth) == ~found /\ level > depth

NeverVisited(id, vis) == FALSE

\* if current_id in self.visited: continue
AlreadyVisited(id, vis) == id \in vis

MarkVisitedLost(vis, id) == vis

\* self.visited.add(current_id)
MarkVisited(vis, id) == vis \cup {id}

PrependRecord(ms, m) == <<m>> \o ms

\* self.mathematicians.append(mathematician)
AppendRecord(ms, m) == Append(ms, m)

IsTargetNoLatch(eid, id, found) == eid # None

IsTargetAnyId(eid, id, found) == eid # None /\ ~found

\* if self.end_id and current_id == self.end_id and not self.target_found
IsTarget(eid, current_id, found) == eid # None /\ current_id = eid /\ ~found

current_id == Head(queue)[1]
level == Head(queue)[2]

Did(kind) == last' = [kind |-> kind, id |-> current_id, level |-> level]

\* ---------------------------------------------------- scrape: actions
ScrapeStartZero ==
    /\ pc = "start"
    /\ queue' = Append(queue, <<start_id, 0>>)
    /\ pc' = "loop"
    /\ UNCHANGED <<config, visited, mathematicians, parent_map, target_found,
                   target_level, source, fetches, parses, levelOf, outcome, sweep, last>>

\* self.queue.append((self.start_id, 1))
ScrapeStart ==
    /\ pc = "start"
    /\ queue' = Append(queue, <<start_id, 1>>)
    /\ pc' = "loop"
    /\ UNCHANGED <<config, visited, mathematicians, parent_map, target_found,
                   target_level, source, fetches, parses, levelOf, outcome, sweep, last>>

\* while self.queue: fails
QueueExhausted ==
    /\ pc = "loop"
    /\ queue = <<>>
    /\ pc' = "done"
    /\ last' = [kind |-> "exhausted", id |-> None, level |-> 0]
    /\ UNCHANGED <<config, visited, queue, mathematicians, parent_map, target_found,
                   target_level, source, fetches, parses, levelOf, outcome, sweep>>

\* popleft, then the first break
BreakTarget ==
    /\ pc = "loop"
    /\ queue # <<>>
    /\ TargetStop(target_found, level, target_level)
    /\ queue' = Tail(queue)
    /\ pc' = "done"
    /\ Did("break_target")
    /\ UNCHANGED <<config, visited, mathematicians, parent_map, target_found,
                   target_level, source, fetches, parses, levelOf, outcome, sweep>>

\* popleft, then the second break
BreakDepth ==
    /\ pc = "loop"
    /\ queue # <<>>
    /\ ~TargetStop(target_found, level, target_level)
    /\ DepthStop(target_found, level, end_depth)
    /\ queue' = Tail(queue)
    /\ pc' = "done"
    /\ Did("break_depth")
    /\ UNCHANGED <<config, visited, mathematicians, parent_map, target_found,
                   target_level, source, fetches, parses, levelOf, outcome, sweep>>

SkipVisitedPeek ==
    /\ pc = "loop"
    /\ queue # <<>>
    /\ ~TargetStop(target_found, level, target_level)
    /\ ~DepthStop(target_found, level, end_depth)
    /\ AlreadyVisited(current_id, visited)
    /\ Did("skip")
    /\ UNCHANGED <<config, visited, queue, mathematicians, parent_map, target_found,
                   target_level, pc, source, fetches, parses, levelOf, outcome, sweep>>

\* popleft, then continue: the identifier is already visited
SkipVisited ==
    /\ pc = "loop"
    /\ queue # <<>>
    /\ ~TargetStop(target_found, level, target_level)
    /\ ~DepthStop(target_found, level, end_depth)
    /\ AlreadyVisited(current_id, visited)
    /\ queue' = Tail(queue)
    /\ Did("skip")
    /\ UNCHANGED <<config, visited, mathematicians, parent_map, target_found,
                   target_level, pc, source, fetches, parses, levelOf, outcome, sweep>>

\* The guard of the rest of the loop body.
Proceeds ==
    /\ pc = "loop"
    /\ queue # <<>>
    /\ ~TargetStop(target_found, level, target_level)
    /\ ~DepthStop(target_found, level, end_depth)
    /\ ~AlreadyVisited(current_id, visited)

\* visited.add, get_page returns None, continue
FetchFail ==
    /\ Proceeds
    /\ <<>> \in GetPage(current_id)
    /\ visited' = MarkVisited(visited, current_id)
    /\ levelOf' = [levelOf EXCEPT ![current_id] = level]
    /\ fetches' = [fetches EXCEPT ![current_id] = @ + 1]
    /\ queue' = Tail(queue)
    /\ outcome' = [outcome EXCEPT ![current_id] = "fetch_fail"]
    /\ Did("fetch_fail")
    /\ UNCHANGED <<config, mathematicians, parent_map, target_found,
                   target_level, pc, source, parses, sweep>>

\* visited.add, get_page, get_advisors, parent_map update, parse_mathematician
\* returns None
ParseFail ==
    /\ Proceeds
    /\ \E page \in GetPage(current_id) :
        /\ page # <<>>
        /\ LET soup == page[1]
               advisors == get_advisors(soup)
               mathematician == parse_mathematician(soup, level, advisors)
           IN  /\ mathematician = <<>>
               /\ parent_map' = RecordEdges(parent_map, advisors, current_id)
    /\ visited' = MarkVisited(visited, current_id)
    /\ levelOf' = [levelOf EXCEPT ![current_id] = level]
    /\ fetches' = [fetches EXCEPT ![current_id] = @ + 1]
    /\ parses' = [parses EXCEPT ![current_id] = @ + 1]
    /\ queue' = Tail(queue)
    /\ outcome' = [outcome EXCEPT ![current_id] = "parse_fail"]
    /\ Did("parse_fail")
    /\ UNCHANGED <<config, mathematicians, target_found, target_level, pc, source, sweep>>

\* visited.add, get_page, get_advisors, parent_map update, parse_mathematician
\* returns a record: append it, check the target, enqueue the advisors
Record ==
    /\ Proceeds
    /\ \E page \in GetPage(current_id) :
        /\ page # <<>>
        /\ LET soup == page[1]
               advisors == get_advisors(soup)
               mathematician == parse_mathematician(soup, level, advisors)
               vis == MarkVisited(visited, current_id)
               hit == IsTarget(end_id, current_id, target_found)
               q == Enqueue(Tail(queue), advisors, vis, level)
           IN  /\ mathematician # <<>>
               /\ parent_map' = RecordEdges(parent_map, advisors, current_id)
               /\ mathematicians' = AppendRecord(mathematicians, mathematician[1])
               /\ source' = Append(source, current_id)
               /\ target_found' = (target_found \/ hit)
               /\ target_level' = IF hit THEN level ELSE target_level
               /\ queue' = q
               /\ visited' = vis
               /\ sweep' = IF hit
                           THEN {q[i][1] : i \in {j \in DOMAIN q : q[j][2] = level}} \ vis
                           ELSE sweep
    /\ levelOf' = [levelOf EXCEPT ![current_id] = level]
    /\ fetches' = [fetches EXCEPT ![current_id] = @ + 1]
    /\ parses' = [parses EXCEPT ![current_id] = @ + 1]
    /\ outcome' = [outcome EXCEPT ![current_id] = "record"]
    /\ Did("record")
    /\ UNCHANGED <<config, pc>>

Next ==
    \/ ScrapeStart
    \/ QueueExhausted
    \/ BreakTarget
    \/ BreakDepth
    \/ SkipVisited
    \/ FetchFail
    \/ ParseFail
    \/ Record

Spec == Init /\ [][Next]_vars

\* ------------------------------------------------------ politeness delay
\* An object that does not traverse: the delay and text specifications look
\* at one function each.
Idle ==
    /\ start_id \in StartIds
    /\ end_id_arg = None
    /\ end_id = InitEndId(end_id_arg)
    /\ end_depth = MaxDepth
    /\ web = [i \in Ids |-> <<>>]
    /\ Fresh

Min(a, b) == IF a < b THEN a ELSE b
Max(a, b) == IF a > b THEN a ELSE b

\* random_delay = max(0, self.wait_sec + max(min(random.gauss(0, 0.1), 0.15), -0.1))
random_delay(wait, gauss) == Max(0, wait + Max(Min(gauss, NoiseHi), NoiseLo))

DelayInit ==
    /\ Idle
    /\ wait_sec \in (0 - MaxWait) .. MaxWait
    /\ noise = 0
    /\ slept = <<>>
    /\ text = <<>>
    /\ out = <<>>

traversal == <<start_id, end_id, end_depth, web, end_id_arg, visited, queue, mathematicians,
               parent_map, target_found, target_level, pc, source, fetches, parses,
               levelOf, outcome, sweep, last>>

\* scrape: sleep(self.wait_sec)
FixedDelay ==
    /\ slept = <<>>
    /\ slept' = <<wait_sec>>
    /\ UNCHANGED <<traversal, wait_sec, noise, text, out>>

\* get_page: sleep(random_delay); reached only when the first sleep returned
\* (time.sleep raises ValueError on a negative duration, which nothing catches).
JitterDelay ==
    /\ Len(slept) = 1
    /\ slept[1] >= 0
    /\ \E gauss \in (0 - MaxNoise) .. MaxNoise :
        /\ noise' = gauss
        /\ slept' = Append(slept, random_delay(wait_sec, gauss))
    /\ UNCHANGED <<traversal, wait_sec, text, out>>

\* the next iteration that fetches
NextFetch ==
    /\ Len(slept) = 2
    /\ slept' = <<>>
    /\ UNCHANGED <<traversal, wait_sec, noise, text, out>>

DelayNext == FixedDelay \/ JitterDelay \/ NextFetch

DelaySpec == DelayInit /\ [][DelayNext]_vars

\* -------------------------------------------------- collapse_whitespace
Chars == {"a", "b", " ", "\n"}

\* what \s matches and what strip() removes
Whitespace == {" ", "\n"}

Texts == UNION {[1 .. n -> Chars] : n \in 0 .. MaxLen}

RECURSIVE SkipWhitespace(_)
SkipWhitespace(t) ==
    IF t # <<>> /\ Head(t) \in Whitespace THEN SkipWhitespace(Tail(t)) ELSE t

RECURSIVE ReSubPairs(_)
ReSubPairs(t) ==
    IF t = <<>> THEN <<>>
    ELSE IF Len(t) >= 2 /\ t[1] \in Whitespace /\ t[2] \in Whitespace
         THEN <<" ">> \o ReSubPairs(Tail(Tail(t)))
         ELSE <<Head(t)>> \o ReSubPairs(Tail(t))

\* re.sub(r'\s+', ' ', text): every maximal run of whitespace becomes one space
RECURSIVE ReSub(_)
ReSub(t) ==
    IF t = <<>> THEN <<>>
    ELSE IF Head(t) \in Whitespace
         THEN <<" ">> \o ReSub(SkipWhitespace(t))
         ELSE <<Head(t)>> \o ReSub(Tail(t))

RECURSIVE DropTrailing(_)
DropTrailing(t) ==
    IF t # <<>> /\ t[Len(t)] \in Whitespace
    THEN DropTrailing(SubSeq(t, 1, Len(t) - 1))
    ELSE t

\* str.strip()
Strip(t) == DropTrailing(SkipWhitespace(t))

\* return re.sub(r'\s+', ' ', text).strip()
collapse_whitespace(t) == Strip(ReSub(t))

TextInit ==
    /\ Idle
    /\ wait_sec = DefaultWait
    /\ noise = 0
    /\ slept = <<>>
    /\ text \in Texts
    /\ out = <<>>

\* collapse_whitespace applied to text, then to its own result
Normalize ==
    /\ Len(out) < 2
    /\ out' = Append(out, collapse_whitespace(IF out = <<>> THEN text ELSE out[Len(out)]))
    /\ UNCHANGED <<traversal, wait_sec, noise, slept, text>>

TextSpec == TextInit /\ [][Normalize]_vars

\* ------------------------------------------------------ the citation graph
\* Nodes whose shortest citation path from the start identifier gives them a
\* generation-level <= k (the start node is level 1).
RECURSIVE Within(_)
Within(k) ==
    IF k <= 0 THEN {}
    ELSE IF k = 1 THEN {start_id}
    ELSE LET W == Within(k - 1)
         IN  W \cup UNION {Range(web[n]) : n \in W}

Reachable == Within(NumIds)

\* Shortest-path generation-level of a reachable node.
Dist(n) == CHOOSE k \in 1 .. NumIds : n \in Within(k) /\ n \notin Within(k - 1)

NoFailure == \A i \in Ids : outcome[i] \notin {"fetch_fail", "parse_fail"}

Records == DOMAIN mathematicians

\* ------------------------------------------------------------------ C1
\* C1 as stated: if the target self.end_id is reachable at level L <= end_depth,
\* the finished run has swept level L and has visited no node of a level > L.
C1_Original ==
    (pc = "done" /\ end_id # None /\ end_id \in Within(end_depth))
        => /\ end_id \in visited
           /\ \A i \in Ids : levelOf[i] <= Dist(end_id)
           /\ \A i \in Records : mathematicians[i].level <= Dist(end_id)

\* C1 (amended): once the target has been fetched and parsed into a record at
\* level L = target_level, L lies in 1 .. end_depth, no node of a level > L is
\* ever marked visited, fetched or recorded, and the finished run has dequeued,
\* marked visited and fetched every level-L frontier entry that was unvisited
\* when the target was found; it ends by the target break or an empty queue.
C1_TargetSweep ==
    target_found =>
        /\ target_level \in 1 .. end_depth
        /\ levelOf[end_id] = target_level
        /\ \A i \in Ids : levelOf[i] <= target_level
        /\ \A i \in Ids : fetches[i] > 0 => levelOf[i] \in 1 .. target_level
        /\ \A i \in Records : mathematicians[i].level <= target_level
        /\ pc = "done" =>
            /\ \A i \in sweep : i \in visited /\ fetches[i] = 1 /\ levelOf[i] = target_level
            /\ last.kind \in {"break_target", "exhausted"}

\* C1 witness: a finished run that found the target, still had an unvisited
\* entry of the target's level to sweep, and stopped at an entry of a higher level.
C1_Witness ==
    /\ pc = "done"
    /\ target_found
    /\ sweep # {}
    /\ last.kind = "break_target"

\* ------------------------------------------------------------------ C2
\* C2 as stated: when the target was never found, the finished run has processed
\* every node reachable at a level <= end_depth and none beyond it.
C2_Original ==
    (pc = "done" /\ (end_id = None \/ end_id \notin visited))
        => /\ Within(end_depth) \subseteq visited
           /\ \A i \in Ids : levelOf[i] <= end_depth

\* C2 (amended): no node is ever marked visited, fetched or recorded at a level
\* above end_depth; and when the target was never found, the finished run has
\* processed the start node (when end_depth >= 1) and every advisor cited by a
\* recorded node of a level below end_depth (expansion goes through recorded
\* nodes only).
C2_DepthCutoff ==
    /\ \A i \in Ids : levelOf[i] <= end_depth
    /\ \A i \in Ids : fetches[i] > 0 => levelOf[i] \in 1 .. end_depth
    /\ \A i \in Records : mathematicians[i].level <= end_depth
    /\ (pc = "done" /\ ~target_found) =>
        /\ end_depth >= 1 => start_id \in visited
        /\ \A i \in Records :
              mathematicians[i].level < end_depth
                  => Range(mathematicians[i].descended_from) \subseteq visited

\* C2 witness: a finished run without a found target that stopped at the depth
\* cutoff after a failure pruned part of the graph.
C2_Witness ==
    /\ pc = "done"
    /\ ~target_found
    /\ last.kind = "break_depth"
    /\ ~NoFailure
    /\ Len(mathematicians) >= 2

\* ------------------------------------------------------------------ C3
\* C3: in a run without fetch or parse failure, the level stored in every record
\* is the shortest-path generation-level of the node it was parsed for.
C3_LevelIsDistance ==
    NoFailure =>
        \A i \in Records :
            /\ source[i] \in Reachable
            /\ mathematicians[i].level = Dist(source[i])

\* C3 witness: a finished failure-free run in which a node recorded at level 2
\* was enqueued again, at level 3, by a level-2 node processed before it.
C3_Witness ==
    /\ pc = "done"
    /\ NoFailure
    /\ \E i, j \in Records :
        /\ i < j
        /\ mathematicians[i].level = 2
        /\ mathematicians[j].level = 2
        /\ source[j] \in Range(web[source[i]])

\* A step of the loop that took the path scrape() records as kind.
Step(kind) == pc = "loop" /\ queue # <<>> /\ last'.kind = kind

Count(seq, x) == Cardinality({i \in DOMAIN seq : seq[i] = x})

Edges(pm, a) == IF a \in DOMAIN pm THEN pm[a] ELSE <<>>

\* ------------------------------------------------------------------ C4
\* C4: no two records of self.mathematicians carry the same id field.
C4_UniqueRecordIds ==
    \A i, j \in Records : i # j => mathematicians[i].id # mathematicians[j].id

\* ------------------------------------------------------------------ C5
\* C5: every identifier is fetched at most once and parsed at most once, and a
\* dequeued entry whose identifier is already visited causes no fetch, no parse
\* and no change of the visited set, the record list or the advisor index.
C5_FetchedOnce ==
    /\ [](\A i \in Ids : fetches[i] <= 1 /\ parses[i] <= 1)
    /\ [][(pc = "loop" /\ queue # <<>> /\ current_id \in visited)
            => /\ fetches' = fetches
               /\ parses' = parses
               /\ visited' = visited
               /\ mathematicians' = mathematicians
               /\ parent_map' = parent_map]_vars

\* C5 witness: a second frontier entry of an identifier that was fetched has
\* just been skipped.
C5_Witness ==
    /\ last.kind = "skip"
    /\ fetches[last.id] = 1
    /\ parses[last.id] = 1

\* ------------------------------------------------------------------ C6
\* C6: after an iteration whose record extraction failed, every advisor of the
\* node that is not visited has a frontier entry at the node's level + 1.
C6_ParseFailEnqueues ==
    last.kind = "parse_fail" =>
        \A a \in Range(web[last.id]) \ visited :
            \E i \in DOMAIN queue : queue[i] = <<a, last.level + 1>>

\* ------------------------------------------------------------------ C7
\* C7: an iteration whose record extraction fails appends no record, and adds
\* the node as a citing identifier to the advisor index entry of every advisor
\* on its page (once per advisor link), leaving the other entries alone.
C7_ParseFailEdges ==
    [][Step("parse_fail") =>
        /\ mathematicians' = mathematicians
        /\ \A a \in Range(web[current_id]) :
              /\ a \in DOMAIN parent_map'
              /\ Count(parent_map'[a], current_id)
                   = Count(Edges(parent_map, a), current_id) + Count(web[current_id], a)
              /\ Len(parent_map'[a]) = Len(Edges(parent_map, a)) + Count(web[current_id], a)
        /\ \A a \in (DOMAIN parent_map') \ Range(web[current_id]) :
              a \in DOMAIN parent_map /\ parent_map'[a] = parent_map[a]]_vars

\* C7 witness: the record extraction of a node with two advisor links has just
\* failed and the node has no record.
C7_Witness ==
    /\ last.kind = "parse_fail"
    /\ Len(web[last.id]) = 2
    /\ last.id \notin Range(source)
    /\ \A a \in Range(web[last.id]) : last.id \in Range(parent_map[a])

\* ------------------------------------------------------------------ C8
\* C8: an iteration whose fetch fails marks the node visited, leaves the record
\* list and the advisor index unchanged, enqueues nothing and goes on with the
\* loop; the node is fetched exactly once and never parsed in the run.
C8_FetchFailure ==
    /\ [](\A i \in Ids : outcome[i] = "fetch_fail"
                => i \in visited /\ fetches[i] = 1 /\ parses[i] = 0)
    /\ [][Step("fetch_fail") =>
            /\ current_id \in visited'
            /\ mathematicians' = mathematicians
            /\ parent_map' = parent_map
            /\ queue' = Tail(queue)
            /\ pc' = "loop"]_vars

\* C8 witness: a later frontier entry of a node whose fetch failed, and whose
\* page holds advisor links, has just been skipped.
C8_Witness ==
    /\ last.kind = "skip"
    /\ outcome[last.id] = "fetch_fail"
    /\ web[last.id] # <<>>
    /\ pc = "loop"

\* ------------------------------------------------------------------ C9
\* C9 as stated: once the node of the target self.end_id has entered the visited
\* set, the controller is in FOUND(L), L the level the node was dequeued with.
C9_Original ==
    (end_id # None /\ end_id \in visited)
        => target_found /\ target_level = levelOf[end_id]

\* C9 (amended): the controller moves from SEARCHING to FOUND(L) exactly in the
\* iteration that dequeues the node of self.end_id, marks it visited and parses
\* it into a record, L being that node's level; when the fetch or the record
\* extraction of that node fails the controller stays in SEARCHING.
C9_FoundOnRecord ==
    /\ [](target_found <=> (end_id # None /\ outcome[end_id] = "record"))
    /\ [](target_found => target_level = levelOf[end_id])
    /\ [](~target_found => target_level = 0)
    /\ [][(~target_found /\ target_found')
            => /\ Step("record")
               /\ current_id = end_id
               /\ current_id \notin visited
               /\ target_level' = level]_vars

\* C9 witness: the target has just been recorded at level 2.
C9_Witness ==
    /\ target_found
    /\ target_level = 2
    /\ last = [kind |-> "record", id |-> end_id, level |-> 2]

\* C9 witness of the other case: the target was visited and its parse failed.
C9_WitnessFailed ==
    /\ end_id # None
    /\ outcome[end_id] = "parse_fail"
    /\ pc = "done"

\* ----------------------------------------------------------------- C10
C10_Pre ==
    /\ pc = "done"
    /\ end_id = None
    /\ NoFailure
    /\ Reachable \subseteq Within(end_depth)

\* C10 as stated: without target and failures, when every reachable node lies at
\* a level <= end_depth, the run ends with one record per reachable node and
\* because the queue is exhausted.
C10_Original ==
    C10_Pre =>
        /\ Range(source) = Reachable
        /\ Len(source) = Cardinality(Reachable)
        /\ last.kind = "exhausted"

\* C10 (amended): under the same conditions the run ends with one record per
\* reachable node, and the loop exits because the queue is exhausted or through
\* the depth break on an entry of level end_depth + 1 whose identifier is
\* already visited; it always exits by exhaustion when every reachable node
\* lies at a level < end_depth.
C10_AllRecorded ==
    C10_Pre =>
        /\ Range(source) = Reachable
        /\ Len(source) = Cardinality(Reachable)
        /\ \/ last.kind = "exhausted"
           \/ /\ last.kind = "break_depth"
              /\ last.level = end_depth + 1
              /\ last.id \in visited
        /\ Reachable \subseteq Within(end_depth - 1) => last.kind = "exhausted"

\* C10 witness: such a run over three reachable nodes that ended by exhaustion
\* with end_depth above the deepest level.
C10_Witness ==
    /\ C10_Pre
    /\ Len(source) = 3
    /\ last.kind = "exhausted"
    /\ Reachable \subseteq Within(end_depth - 1)

\* ----------------------------------------------------------------- C11
\* C11: when the start page has no advisor link and is fetched and parsed into
\* a record, that record is the only one, has level 1 and an empty advisor
\* list, and the queue is empty after that first iteration: nothing but the
\* exit of the loop follows it.
C11_SingleRecord ==
    (web[start_id] = <<>> /\ outcome[start_id] = "record") =>
        /\ Len(mathematicians) = 1
        /\ mathematicians[1].level = 1
        /\ mathematicians[1].descended_from = <<>>
        /\ source = <<start_id>>
        /\ visited = {start_id}
        /\ \A i \in Ids : fetches[i] = IF i = start_id THEN 1 ELSE 0
        /\ queue = <<>>
        /\ \/ pc = "loop" /\ last = [kind |-> "record", id |-> start_id, level |-> 1]
           \/ pc = "done" /\ last.kind = "exhausted"

\* C11 witness: the run over a start page without advisors has ended.
C11_Witness ==
    /\ web[start_id] = <<>>
    /\ outcome[start_id] = "record"
    /\ pc = "done"
    /\ Len(mathematicians) = 1

\* ----------------------------------------------------------------- C12
\* C12: an iteration keeps the rest of the queue and appends entries only for
\* identifiers that are not visited at that moment (the node being processed
\* included); a dequeued entry whose identifier is visited meanwhile is
\* skipped without a fetch unless a stop rule ends the run.
C12_EnqueueUnvisited ==
    [][(pc = "loop" /\ queue # <<>>) =>
        /\ Len(queue') >= Len(queue) - 1
        /\ SubSeq(queue', 1, Len(queue) - 1) = Tail(queue)
        /\ \A i \in Len(queue) .. Len(queue') : queue'[i][1] \notin visited'
        /\ current_id \in visited =>
              /\ last'.kind \in {"skip", "break_target", "break_depth"}
              /\ fetches' = fetches]_vars

\* C12 witness: the queue holds two entries of one identifier that is not
\* visited yet.
C12_Witness ==
    \E i, j \in DOMAIN queue :
        /\ i < j
        /\ queue[i][1] = queue[j][1]
        /\ queue[i][1] \notin visited

\* ----------------------------------------------------------------- C15
\* C15: the levels of the queue never decrease from head to tail, an iteration
\* appends entries of the dequeued level + 1 only, and the level of a dequeued
\* entry is never below the level of the entry dequeued before it.
C15_QueueMonotone ==
    /\ [](\A i, j \in DOMAIN queue : i < j => queue[i][2] <= queue[j][2])
    /\ [][(pc = "loop" /\ queue # <<>>) =>
            /\ \A i \in Len(queue) .. Len(queue') : queue'[i][2] = level + 1
            /\ last.kind # "none" => level >= last.level]_vars

\* C15 witness: after a recording iteration the queue holds entries of two
\* different levels.
C15_Witness ==
    /\ last.kind = "record"
    /\ \E i, j \in DOMAIN queue : i < j /\ queue[i][2] < queue[j][2]

\* ----------------------------------------------------------------- C16
\* The loop of scrape() runs on its own: a step that can be taken is taken.
FairSpec == Spec /\ WF_vars(Next)

\* C16: every run of scrape() ends, whatever the graph and the failures.
C16_Terminates == <>(pc = "done")

\* C16 witness: a finished run over a site with a self-citation and a citation
\* cycle, in which a record extraction failed.
C16_Witness ==
    /\ pc = "done"
    /\ start_id \in Range(web[start_id])
    /\ \E n \in visited \ {start_id} :
          start_id \in Range(web[n]) /\ outcome[n] = "parse_fail"

\* ----------------------------------------------------------------- C17
\* C17: every step leaves the record list unchanged or appends one record to
\* its end, and the levels along the record list never decrease.
C17_AppendOnly ==
    /\ [][\/ mathematicians' = mathematicians
          \/ /\ Len(mathematicians') = Len(mathematicians) + 1
             /\ SubSeq(mathematicians', 1, Len(mathematicians)) = mathematicians]_vars
    /\ [](\A i, j \in Records :
            i < j => mathematicians[i].level <= mathematicians[j].level)

\* C17 witness: three records at levels 1, 2 and 3.
C17_Witness ==
    /\ Len(mathematicians) = 3
    /\ mathematicians[2].level = 2
    /\ mathematicians[3].level = 3

\* ----------------------------------------------------------------- C18
\* C18: parent_map[a] holds c exactly when the page of c was fetched in this
\* run and names a as an advisor; an entry exists only once it holds an edge,
\* and a step only ever appends to the entries.
C18_AdvisorIndex ==
    /\ [](\A a, c \in Ids :
            (a \in DOMAIN parent_map /\ c \in Range(parent_map[a]))
                <=> (outcome[c] \in {"parse_fail", "record"} /\ a \in Range(web[c])))
    /\ [](DOMAIN parent_map \subseteq Ids)
    /\ [](\A a \in DOMAIN parent_map : parent_map[a] # <<>>)
    /\ [][\A a \in DOMAIN parent_map :
            /\ a \in DOMAIN parent_map'
            /\ SubSeq(parent_map'[a], 1, Len(parent_map[a])) = parent_map[a]]_vars

\* C18 witness: an entry holds two edges while the page of a visited node with
\* advisor links could not be fetched.
C18_Witness ==
    /\ \E a \in DOMAIN parent_map : Len(parent_map[a]) = 2
    /\ \E c \in Ids : outcome[c] = "fetch_fail" /\ web[c] # <<>>

\* ----------------------------------------------------------------- C19
\* C19: target_found never goes back to false and target_level never changes
\* once it is set; target_level is 0 while target_found is false; and while
\* target_found is true the record list holds a record parsed for the target
\* node whose level is target_level.
C19_TargetLatched ==
    /\ [][target_found => (target_found' /\ target_level' = target_level)]_vars
    /\ [](~target_found => target_level = 0)
    /\ [](target_found =>
            \E i \in Records :
                source[i] = end_id /\ mathematicians[i].level = target_level)

\* C19 witness: another node of the target's level was recorded after the
\* target was found.
C19_Witness ==
    /\ target_found
    /\ last.kind = "record"
    /\ last.id # end_id
    /\ last.level = target_level

\* ----------------------------------------------------------------- C20
\* C20: every visited node was dequeued at a level in 1 .. end_depth, every
\* record carries such a level, and target_level, once set, does too.
C20_LevelsInRange ==
    /\ \A i \in Ids : IF i \in visited THEN levelOf[i] \in 1 .. end_depth ELSE levelOf[i] = 0
    /\ \A i \in Records : mathematicians[i].level \in 1 .. end_depth
    /\ target_found => target_level \in 1 .. end_depth

\* C20 witness: a run with a target that is not found ended at the depth cutoff
\* after recording a node at level end_depth >= 2.
C20_Witness ==
    /\ pc = "done"
    /\ end_id # None
    /\ ~target_found
    /\ last.kind = "break_depth"
    /\ end_depth >= 2
    /\ \E i \in Records : mathematicians[i].level = end_depth

\* ----------------------------------------------------------------- C13
\* C13: no duration given to sleep() before a fetch is negative, and the one
\* slept inside get_page is max(0, wait_sec + clamp(noise, -0.1, +0.15)).
C13_NoNegativeSleep ==
    /\ \A i \in DOMAIN slept : slept[i] >= 0
    /\ Len(slept) = 2 =>
          slept[2] = Max(0, wait_sec + (IF noise < NoiseLo THEN NoiseLo
                                        ELSE IF noise > NoiseHi THEN NoiseHi
                                        ELSE noise))

\* The part of C13 that holds: the delay slept inside get_page is never
\* negative and is the floored sum of the wait and the clamped noise.
C13_JitterFloored ==
    Len(slept) = 2 =>
        /\ slept[2] >= 0
        /\ slept[2] = Max(0, wait_sec + (IF noise < NoiseLo THEN NoiseLo
                                         ELSE IF noise > NoiseHi THEN NoiseHi
                                         ELSE noise))

\* ----------------------------------------------------------------- C14
\* C14: collapse_whitespace applied to its own result returns that result.
C14_Idempotent == Len(out) = 2 => out[2] = out[1]

\* C14 witness: a text of five characters with whitespace in front and a run
\* of two whitespace characters inside was normalized twice.
C14_Witness ==
    /\ Len(out) = 2
    /\ text = <<"\n", "a", " ", "\n", "b">>
    /\ out[1] = <<"a", " ", "b">>

====
